---- MODULE Spec2Model ----
(***************************************************************************)
(* Model of cryptofeed's transport layer (cryptofeed/connection.py) and of *)
(* the HitBTC adapter (cryptofeed/exchange/hitbtc.py).                     *)
(*                                                                         *)
(* One channel object is modelled; its class is chosen in Init (kind).    *)
(* Underlying sessions (aiohttp.ClientSession / websocket protocol) are    *)
(* numbered 1, 2, ... in the order they are created. The constructors and  *)
(* the class counter behind the connection ids are modelled for a whole    *)
(* process (ids), the adapter by its subscribe() and message_handler().    *)
(***************************************************************************)
EXTENDS Integers, Sequences, FiniteSets, TLC

(* ---------------------------- bounds ----------------------------------- *)
MaxSessions == 2      \* sessions one channel may create
MaxCount == 3         \* cap of the sent / received counters
MaxTime == 90         \* last value of the wall clock (seconds)
MaxSeq == 3           \* largest sequence number a frame carries
MaxDeltas == 2        \* emitted deltas that are kept for a replay
MaxStreamSeq == 2     \* largest sequence number in the mixed stream
MaxChannels == 3      \* channels constructed in one process

(* ------------------------ program constants ---------------------------- *)
Minute == 60          \* (int(now) // 60 + 1) * 60

None == 0             \* Python None for conn and next_reset (both falsy)
NoTime == -1          \* last_message = None

HTTPKinds == {"http", "throttled"}
SessionKinds == HTTPKinds \cup {"poll"}    \* classes that inherit HTTPAsyncConn
HTTPFamily == SessionKinds \cup {"sync"}   \* and HTTPSync, which has no session
AddressLists == {<<"u">>, <<"u", "v">>}    \* address argument of HTTPPoll
Kinds == HTTPKinds \cup {"ws"}
TimeSteps == {30}             \* amounts by which the clock advances
Limits == {10}                \* throttle_limit values
TightLimits == {8}            \* throttle_limit of the channel two tasks share
Weights == {4, 11}            \* weight arguments of read
Statuses == {200, 500}        \* HTTP response status
Tasks == {1, 2}               \* cooperative tasks that may call read

NoSeq == -1                   \* the frame has no params.sequence
NoDelta == [none |-> TRUE]    \* delta = None of a snapshot event
Symbols == {"BTCUSD", "ETHUSD"}                  \* exchange symbol ids
Empty == [x \in {} |-> 0]     \* {} (dict) and sd()
\* no emitted deltas are being kept
NoHistory == [symbol |-> "none", book |-> [bid |-> Empty, ask |-> Empty], deltas |-> <<>>]

VARIABLES
  kind,           \* class of the channel
  sink,           \* raw_data_callback is set
  conn,           \* self.conn: None or the session it references
  live,           \* sessions whose transport is not closed
  closing,        \* sessions whose close() coroutine is being awaited
  nsessions,      \* sessions created so far
  closeCount,     \* per session: how often the channel called its close()
  sent,           \* self.sent
  received,       \* self.received
  last_message,   \* self.last_message
  now,            \* time.time()
  iter,           \* session an active `async for data in self.conn` reads
  throttle_limit, \* self.throttle_limit
  used_limit,     \* self.used_limit
  next_reset,     \* self.next_reset
  tasks,          \* the tasks that use the channel
  pc,             \* per task: "idle" or "sleeping" (inside asyncio.sleep)
  weight,         \* per task: weight argument of its suspended read
  wake_at,        \* per task: time at which its asyncio.sleep is over
  window_at_suspend, \* per task: next_reset when it suspended
  delegated,      \* weight passed to super().read in the minute of `now`
  direct,         \* part of `delegated` that was accepted without a sleep
  lastOp,         \* what the last operation did
  seq_no,         \* self.seq_no: exchange symbol -> last sequence number
  l2_book,        \* self.l2_book: symbol -> side -> price -> size
  last,           \* the frame message_handler handled last, and its outcome
  audit,          \* a downstream replica records what the adapter emits
  history,        \* the book of the last snapshot event and the deltas since
  resync,         \* symbols whose gap was followed by a reconnect
  subscription,   \* self.subscription: channel name -> symbols
  sub,            \* the running subscribe() call
  address,        \* self.address of a polling channel
  poll,           \* position of the generator made by HTTPPoll.read
  conn_count,     \* AsyncConnection.conn_count
  ids             \* self.id of the channels constructed so far

chanVars == <<kind, sink, conn, live, closing, nsessions, closeCount, sent,
              received, last_message, iter>>
throttleVars == <<throttle_limit, used_limit, next_reset, tasks, pc, weight,
                  wake_at, window_at_suspend, delegated, direct>>
adapterVars == <<seq_no, l2_book, last, audit, history, resync>>
feedVars == <<subscription, sub>>
pollVars == <<address, poll>>
idVars == <<conn_count, ids>>
vars == <<chanVars, throttleVars, now, lastOp, adapterVars, feedVars, pollVars,
          idVars>>

Sessions == 1..MaxSessions

\* what one operation did: its name, how it ended, the calling task, the
\* RawDataSink calls it made, the requests / frames it put on a transport,
\* the session it created, and is_open as the operation found it
Op(name, res, t, calls, wire, opened) ==
  [op |-> name, res |-> res, task |-> t, sink |-> calls, wire |-> wire,
   opened |-> opened, pre |-> conn # None /\ conn \in live]

(* ----------------------------- lifecycle ------------------------------- *)
is_open == conn # None /\ conn \in live

InitChannel ==
  /\ conn = None
  /\ live = {}
  /\ closing = {}
  /\ nsessions = 0
  /\ closeCount = [s \in Sessions |-> 0]
  /\ sent = 0
  /\ received = 0
  /\ last_message = NoTime
  /\ iter = None
  /\ now = 0
  /\ lastOp = [op |-> "init", res |-> "ok", task |-> 0, sink |-> <<>>,
               wire |-> 0, opened |-> None, pre |-> FALSE]

InitThrottle ==
  /\ used_limit = 0
  /\ next_reset = None
  /\ pc = [t \in Tasks |-> "idle"]
  /\ weight = [t \in Tasks |-> 0]
  /\ wake_at = [t \in Tasks |-> 0]
  /\ window_at_suspend = [t \in Tasks |-> 0]
  /\ delegated = 0
  /\ direct = 0

\* aiohttp.ClientSession() / websockets.connect(): a new session
\* (variant: the session made last is taken up again)
MutReopensLast ==
  /\ conn' = (IF nsessions > 0 THEN nsessions ELSE 1)
  /\ nsessions' = (IF nsessions > 0 THEN nsessions ELSE 1)
  /\ live' = live \cup {IF nsessions > 0 THEN nsessions ELSE 1}
NewSession ==
  /\ conn' = nsessions + 1
  /\ nsessions' = nsessions + 1
  /\ live' = live \cup {nsessions + 1}

\* a counter assigned by HTTPAsyncConn._open (lines 114-115)
\* (variant: _open leaves the counters as they are)
MutOpenKeepsCount(c) == c
http_open_count(c) == 0

\* HTTPAsyncConn._open
HTTPAsyncConn_open ==
  /\ kind \in SessionKinds
  /\ IF is_open
       THEN UNCHANGED <<conn, nsessions, live, sent, received>>
       ELSE /\ nsessions < MaxSessions
            /\ NewSession
            /\ sent' = http_open_count(sent)
            /\ received' = http_open_count(received)
  /\ lastOp' = Op("open", "ok", 0, <<>>, 0, IF is_open THEN None ELSE nsessions + 1)
  /\ UNCHANGED <<kind, sink, closing, closeCount, last_message, iter, now>>
  /\ UNCHANGED <<throttleVars, adapterVars, feedVars, pollVars, idVars>>

\* counters after WSAsyncConn._open (lines 238-239 are outside the else)
ws_open_sent(was_open) == 0
ws_open_received(was_open) == 0

\* WSAsyncConn._open
WSAsyncConn_open ==
  /\ kind = "ws"
  /\ IF is_open
       THEN UNCHANGED <<conn, nsessions, live>>
       ELSE /\ nsessions < MaxSessions
            /\ NewSession
  /\ sent' = ws_open_sent(is_open)
  /\ received' = ws_open_received(is_open)
  /\ lastOp' = Op("open", "ok", 0,
                  IF ~is_open /\ sink THEN <<"connect">> ELSE <<>>, 0,
                  IF is_open THEN None ELSE nsessions + 1)
  /\ UNCHANGED <<kind, sink, closing, closeCount, last_message, iter, now>>
  /\ UNCHANGED <<throttleVars, adapterVars, feedVars, pollVars, idVars>>

\* self.conn after line 91 of close()
\* (variant: the reference is cleared only after the awaited close)
MutCloseKeepsConn(c) == c
conn_after_close(c) == None

\* AsyncConnection.close up to `await conn.close()`
AsyncConnection_close ==
  /\ kind # "sync"
  /\ IF is_open
       THEN /\ conn' = conn_after_close(conn)
            /\ closing' = closing \cup {conn}
            /\ closeCount' = [closeCount EXCEPT ![conn] = @ + 1]
            /\ closeCount[conn] < 2   \* keeps the counter finite
       ELSE UNCHANGED <<conn, closing, closeCount>>
  /\ lastOp' = Op("close", "ok", 0, <<>>, 0, None)
  /\ UNCHANGED <<kind, sink, live, nsessions, sent, received, last_message,
                 iter, now>>
  /\ UNCHANGED <<throttleVars, adapterVars, feedVars, pollVars, idVars>>

\* the awaited conn.close() completes: the transport is closed
TransportClosed ==
  /\ \E s \in closing :
       /\ closing' = closing \ {s}
       /\ live' = live \ {s}
  /\ lastOp' = Op("closed", "ok", 0, <<>>, 0, None)
  /\ UNCHANGED <<kind, sink, conn, nsessions, closeCount, sent, received,
                 last_message, iter, now>>
  /\ UNCHANGED <<throttleVars, adapterVars, feedVars, pollVars, idVars>>

\* the peer or the network closes the transport underneath the channel
TransportDrop ==
  /\ is_open
  /\ conn \notin closing
  /\ live' = live \ {conn}
  /\ lastOp' = Op("drop", "ok", 0, <<>>, 0, None)
  /\ UNCHANGED <<kind, sink, conn, closing, nsessions, closeCount, sent,
                 received, last_message, iter, now>>
  /\ UNCHANGED <<throttleVars, adapterVars, feedVars, pollVars, idVars>>

\* the wall clock advances
Advance ==
  /\ \E d \in TimeSteps :
       /\ now + d <= MaxTime
       /\ now' = now + d
       /\ delegated' = IF (now + d) \div Minute = now \div Minute THEN delegated ELSE 0
       /\ direct' = IF (now + d) \div Minute = now \div Minute THEN direct ELSE 0
  /\ lastOp' = Op("tick", "ok", 0, <<>>, 0, None)
  /\ UNCHANGED chanVars
  /\ UNCHANGED <<throttle_limit, used_limit, next_reset, tasks, pc, weight,
                 wake_at, window_at_suspend, adapterVars, feedVars, pollVars,
                 idVars>>

(* ------------------------------ HTTP ----------------------------------- *)
\* `if not self.is_open: await self._open()` of read and write
AutoOpen ==
  IF is_open
    THEN UNCHANGED <<conn, nsessions, live>>
    ELSE /\ nsessions < MaxSessions
         /\ NewSession

SentAtRequest == IF is_open THEN sent ELSE http_open_count(sent)
ReceivedAtRequest == IF is_open THEN received ELSE http_open_count(received)
Raised(status) == IF status \div 100 = 2 THEN "ok" ELSE "HTTPError"

\* the RawDataSink calls of a response handler: the callback is awaited
\* before raise_for_status() (lines 34-36, 129-132, 144-146, 201-203)
\* (variant: raise_for_status() comes first)
MutRaiseBeforeSink(tag, status) ==
  IF sink /\ Raised(status) = "ok" THEN <<tag>> ELSE <<>>
Captured(tag, status) == IF sink THEN <<tag>> ELSE <<>>

\* HTTPAsyncConn.read, called by task t (0: the owner of the channel)
HTTPRead(t, status) ==
  /\ AutoOpen
  /\ ReceivedAtRequest < MaxCount
  /\ sent' = SentAtRequest
  /\ received' = ReceivedAtRequest + 1
  /\ last_message' = now
  /\ lastOp' = Op("read", Raised(status), t, Captured("endpoint", status), 1,
                  IF is_open THEN None ELSE nsessions + 1)
  /\ UNCHANGED <<kind, sink, closing, closeCount, iter, now>>

HTTPAsyncConn_read ==
  /\ kind = "http"
  /\ \E status \in Statuses : HTTPRead(0, status)
  /\ UNCHANGED <<throttleVars, adapterVars, feedVars, pollVars, idVars>>

\* HTTPAsyncConn.write
HTTPAsyncConn_write ==
  /\ kind \in SessionKinds
  /\ AutoOpen
  /\ SentAtRequest < MaxCount
  /\ sent' = SentAtRequest + 1
  /\ received' = ReceivedAtRequest
  /\ \E status \in Statuses :
       lastOp' = Op("write", Raised(status), 0, Captured("send", status), 1,
                    IF is_open THEN None ELSE nsessions + 1)
  /\ UNCHANGED <<kind, sink, closing, closeCount, last_message, iter, now>>
  /\ UNCHANGED <<throttleVars, adapterVars, feedVars, pollVars, idVars>>

\* HTTPSync.read and HTTPSync.write: the request and process_response
HTTPSync_read ==
  /\ kind = "sync"
  /\ \E status \in Statuses :
       lastOp' = Op("read", Raised(status), 0, Captured("endpoint", status), 1, None)
  /\ UNCHANGED <<chanVars, now>>
  /\ UNCHANGED <<throttleVars, adapterVars, feedVars, pollVars, idVars>>

HTTPSync_write ==
  /\ kind = "sync"
  /\ \E status \in Statuses :
       lastOp' = Op("write", Raised(status), 0, Captured("endpoint", status), 1, None)
  /\ UNCHANGED <<chanVars, now>>
  /\ UNCHANGED <<throttleVars, adapterVars, feedVars, pollVars, idVars>>

(* ------------------------------ polling -------------------------------- *)
\* `if not self.is_open` of HTTPPoll.read (line 193)
\* (variant: only `self.conn is None` is tested)
MutPollSeesConnOnly == conn = None
poll_closed == ~is_open

\* the loops of lines 191-192: the index polled after index i of n
NextAddress(i, n) == (i % n) + 1

\* HTTPPoll.read: one item is asked of the generator. A generator that has
\* raised is finished; read() is then called again and starts at the first
\* address. The sleeps of lines 205-206 come before the is_open test of the
\* following turn; the step is taken when they are over.
HTTPPoll_read ==
  /\ kind = "poll"
  /\ LET i == IF poll.state = "running" THEN poll.next ELSE 1 IN
     IF poll_closed
       THEN /\ poll' = [state |-> "finished", next |-> i, polled |-> ""]
            /\ lastOp' = Op("poll", "ConnectionClosed", 0, <<>>, 0, None)
            /\ UNCHANGED <<received, last_message>>
       ELSE /\ received < MaxCount
            /\ received' = received + 1
            /\ last_message' = now
            /\ \E status \in Statuses :
                 /\ lastOp' = Op("poll", Raised(status), 0,
                                 Captured("endpoint", status), 1, None)
                 /\ poll' = IF Raised(status) = "ok"
                              THEN [state |-> "running",
                                    next |-> NextAddress(i, Len(address)),
                                    polled |-> address[i]]
                              ELSE [state |-> "finished", next |-> i,
                                    polled |-> address[i]]
  /\ UNCHANGED <<kind, sink, conn, live, closing, nsessions, closeCount, sent,
                 iter, now, address>>
  /\ UNCHANGED <<throttleVars, adapterVars, feedVars, idVars>>

(* ---------------------------- throttling ------------------------------- *)
\* (int(now) // 60 + 1) * 60
\* (variant: a window of 60 seconds from the call)
MutSlidingWindow(t) == t + Minute
NextMinute(t) == (t \div Minute + 1) * Minute

\* wait_time = self.next_reset - time.time()
\* (variant: the sleep ends one interval early)
MutWaitShort(reset, t) == reset - t - Minute
wait_time(reset, t) == reset - t

\* lines 159-167: the window after the weight is added and an expired
\* window is replaced
ResetAtCheck == IF next_reset = None THEN NextMinute(now) ELSE next_reset
Expired == ResetAtCheck < now
WindowAtCheck == IF Expired THEN NextMinute(now) ELSE ResetAtCheck
UsedAtCheck(w) == IF Expired THEN w ELSE used_limit + w

\* ThrottledHTTPAsyncConn.read up to its first suspension
ThrottledHTTPAsyncConn_read ==
  /\ kind = "throttled"
  /\ \E t \in tasks, w \in Weights :
       /\ pc[t] = "idle"
       /\ used_limit' = UsedAtCheck(w)
       /\ next_reset' = WindowAtCheck
       /\ IF UsedAtCheck(w) >= throttle_limit
            THEN /\ pc' = [pc EXCEPT ![t] = "sleeping"]
                 /\ weight' = [weight EXCEPT ![t] = w]
                 /\ wake_at' = [wake_at EXCEPT ![t] = now + wait_time(WindowAtCheck, now)]
                 /\ window_at_suspend' = [window_at_suspend EXCEPT ![t] = WindowAtCheck]
                 /\ lastOp' = Op("throttle", "suspended", t, <<>>, 0, None)
                 /\ UNCHANGED <<chanVars, now, delegated, direct>>
            ELSE /\ \E status \in Statuses : HTTPRead(t, status)
                 /\ delegated' = delegated + w
                 /\ direct' = direct + w
                 /\ UNCHANGED <<pc, weight, wake_at, window_at_suspend>>
  /\ UNCHANGED <<throttle_limit, tasks, adapterVars, feedVars, pollVars, idVars>>

\* ThrottledHTTPAsyncConn.read from the end of asyncio.sleep (lines 175-177)
ThrottledHTTPAsyncConn_resume ==
  /\ kind = "throttled"
  /\ \E t \in tasks :
       /\ pc[t] = "sleeping"
       /\ now >= wake_at[t]
       /\ next_reset' = NextMinute(now)
       /\ used_limit' = weight[t]
       /\ \E status \in Statuses : HTTPRead(t, status)
       /\ delegated' = delegated + weight[t]
       /\ pc' = [pc EXCEPT ![t] = "idle"]
  /\ UNCHANGED <<throttle_limit, tasks, weight, wake_at, window_at_suspend, direct,
                 adapterVars, feedVars, pollVars, idVars>>

(* ---------------------------- WebSocket -------------------------------- *)
\* `if not self.is_open` of WSAsyncConn.write (line 258)
\* (variant: only `self.conn is None` is tested)
MutWriteChecksConnOnly == conn = None
ws_write_closed == ~is_open

\* WSAsyncConn.write
WSAsyncConn_write ==
  /\ kind = "ws"
  /\ IF ws_write_closed
       THEN /\ lastOp' = Op("write", "ConnectionClosed", 0, <<>>, 0, None)
            /\ UNCHANGED sent
       ELSE /\ sent < MaxCount
            /\ sent' = sent + 1
            /\ lastOp' = Op("write", "ok", 0,
                            IF sink THEN <<"send">> ELSE <<>>, 1, None)
  /\ UNCHANGED <<kind, sink, conn, live, closing, nsessions, closeCount,
                 received, last_message, iter, now>>
  /\ UNCHANGED <<throttleVars, adapterVars, feedVars, pollVars, idVars>>

\* WSAsyncConn.read: the first step of the iteration (lines 242-246)
WSAsyncConn_read ==
  /\ kind = "ws"
  /\ IF ~is_open
       THEN /\ lastOp' = Op("read", "ConnectionClosed", 0, <<>>, 0, None)
            /\ UNCHANGED iter
       ELSE /\ iter = None
            /\ iter' = conn
            /\ lastOp' = Op("read", "ok", 0, <<>>, 0, None)
  /\ UNCHANGED <<kind, sink, conn, live, closing, nsessions, closeCount, sent,
                 received, last_message, now>>
  /\ UNCHANGED <<throttleVars, adapterVars, feedVars, pollVars, idVars>>

\* WSAsyncConn.read: one item of `async for data in self.conn`
WSAsyncConn_read_item ==
  /\ kind = "ws"
  /\ iter # None
  /\ iter \in live
  /\ received < MaxCount
  /\ received' = received + 1
  /\ last_message' = now
  /\ lastOp' = Op("item", "ok", 0, IF sink THEN <<"data">> ELSE <<>>, 0, None)
  /\ UNCHANGED <<kind, sink, conn, live, closing, nsessions, closeCount, sent,
                 iter, now>>
  /\ UNCHANGED <<throttleVars, adapterVars, feedVars, pollVars, idVars>>

\* WSAsyncConn.read: the iteration ends when the transport is closed
WSAsyncConn_read_end ==
  /\ kind = "ws"
  /\ iter # None
  /\ iter \notin live
  /\ iter' = None
  /\ lastOp' = Op("end", "ok", 0, <<>>, 0, None)
  /\ UNCHANGED <<kind, sink, conn, live, closing, nsessions, closeCount, sent,
                 received, last_message, now>>
  /\ UNCHANGED <<throttleVars, adapterVars, feedVars, pollVars, idVars>>

(* ------------------ state that a specification leaves fixed ----------- *)
\* no subscription map, no subscribe() call
NoCall == [state |-> "idle", todo |-> <<>>, written |-> <<>>, base |-> 0]
InitFeed ==
  /\ subscription = <<>>
  /\ sub = NoCall

\* no polling generator
NoPoll == [state |-> "none", next |-> 1, polled |-> ""]
InitPolling ==
  /\ address = <<>>
  /\ poll = NoPoll

\* no channel has been constructed (line 55)
InitIds ==
  /\ conn_count = 0
  /\ ids = <<>>

(* --------------------------- construction ------------------------------ *)
\* A string is modelled as the sequence of the pieces between its dots, an
\* address as the sequence of its characters.
\* conn_id arguments: a plain base, and a base that looks like an id
Bases == {<<"hitbtc">>, <<"hitbtc", "http", "0">>}
Wss == <<"w", "s", "s", ":", "/", "/">>
WSAddresses == {Wss \o <<"h">>, <<"w", "s", ":", "/", "/", "h">>}

\* str(int) of the f-strings
Str(n) ==
  CASE n = 0 -> "0" [] n = 1 -> "1" [] n = 2 -> "2" [] n = 3 -> "3" [] n = 4 -> "4"
    [] n = 5 -> "5" [] n = 6 -> "6" [] n = 7 -> "7" [] n = 8 -> "8" [] n = 9 -> "9"

\* address.startswith("wss://")
startswith_wss(a) == Len(a) >= Len(Wss) /\ SubSeq(a, 1, Len(Wss)) = Wss

\* f'{conn_id}.http.{self.conn_count}' and f'{conn_id}.ws.{self.conn_count}'
http_id(conn_id, n) == conn_id \o <<"http", Str(n)>>
ws_id(conn_id, n) == conn_id \o <<"ws", Str(n)>>
\* HTTPPoll formats the id (line 182) and HTTPAsyncConn formats it again
poll_id(conn_id, n) == http_id(http_id(conn_id, n), n)

\* AsyncConnection.conn_count += 1
\* (variant: the class counter is left as it is)
MutCountStays(c) == c
count_after_init(c) == c + 1

\* AsyncConnection.__init__ of a channel of class k
AsyncConnection_init(k, conn_id) ==
  /\ Len(ids) < MaxChannels
  /\ conn_count' = count_after_init(conn_count)
  /\ ids' = Append(ids, [kind |-> k, id |-> conn_id])

HTTPAsyncConn_init ==
  /\ \E base \in Bases : AsyncConnection_init("http", http_id(base, conn_count))
  /\ lastOp' = Op("construct", "ok", 0, <<>>, 0, None)
  /\ UNCHANGED <<chanVars, throttleVars, now, adapterVars, feedVars, pollVars>>

ThrottledHTTPAsyncConn_init ==
  /\ \E base \in Bases : AsyncConnection_init("throttled", http_id(base, conn_count))
  /\ lastOp' = Op("construct", "ok", 0, <<>>, 0, None)
  /\ UNCHANGED <<chanVars, throttleVars, now, adapterVars, feedVars, pollVars>>

HTTPPoll_init ==
  /\ \E base \in Bases : AsyncConnection_init("poll", poll_id(base, conn_count))
  /\ lastOp' = Op("construct", "ok", 0, <<>>, 0, None)
  /\ UNCHANGED <<chanVars, throttleVars, now, adapterVars, feedVars, pollVars>>

WSAsyncConn_init ==
  /\ \E a \in WSAddresses, base \in Bases :
       IF ~startswith_wss(a)
         THEN /\ lastOp' = Op("construct", "ValueError", 0, <<>>, 0, None)
              /\ UNCHANGED idVars
         ELSE /\ AsyncConnection_init("ws", ws_id(base, conn_count))
              /\ lastOp' = Op("construct", "ok", 0, <<>>, 0, None)
  /\ UNCHANGED <<chanVars, throttleVars, now, adapterVars, feedVars, pollVars>>

(* ------------------------- HitBTC adapter ------------------------------ *)
\* exchange_symbol_to_std_symbol (the table is supplied from outside)
Std(sym) == IF sym = "BTCUSD" THEN "BTC-USD" ELSE "ETH-USD"

\* Decimal(str) of the numbers that occur in frames
Decimal(str) ==
  CASE str = "100" -> 100
    [] str = "101" -> 101
    [] str = "0" -> 0
    [] str = "0.00" -> 0
    [] str = "1" -> 1
    [] str = "2" -> 2

\* entries {"price": .., "size": ..} as the exchange sends them
Entry(price, size) == [price |-> price, size |-> size]
BidEntries == {Entry("100", sz) : sz \in {"0", "1"}}
AskEntries == {Entry("101", sz) : sz \in {"0.00", "2"}}
ListsOf(E) == {<<>>} \cup {<<e>> : e \in E} \cup {<<e, f>> : e \in E, f \in E}
EntryPairs ==
  {p \in ListsOf(BidEntries) \X ListsOf(AskEntries) : Len(p[1]) + Len(p[2]) <= 2}
SmallPairs ==
  { << <<Entry("100", "1")>>, <<Entry("101", "2")>> >>,
    << <<>>, <<Entry("101", "0.00")>> >> }

\* a decoded frame: disc is the discriminator key it has ("method",
\* "channel" or "none"), name the value of that key, seq params.sequence,
\* trades the length of params.data, error / result the envelope keys
Frame(disc, name, sym, seq, pair, trades, error, result) ==
  [disc |-> disc, name |-> name, symbol |-> sym, seq |-> seq,
   bid |-> pair[1], ask |-> pair[2], trades |-> trades, error |-> error,
   result |-> result]
NoEntries == << <<>>, <<>> >>

BookFramesOf(syms, seqs, pairs) ==
  {Frame("method", m, sym, q, p, 0, FALSE, "absent") :
     m \in {"snapshotOrderbook", "updateOrderbook"}, sym \in syms, q \in seqs,
     p \in pairs}

OtherFramesOf(syms, seqs) ==
  {Frame("method", m, sym, q, NoEntries, IF m = "updateTrades" THEN 2 ELSE 0,
         FALSE, "absent") :
     m \in {"ticker", "updateTrades", "bogus"}, sym \in syms, q \in seqs}

InitAdapter ==
  /\ seq_no = Empty
  /\ l2_book = Empty
  /\ last = [frame |-> Frame("none", "", "", NoSeq, NoEntries, 0, FALSE, "absent"),
             res |-> "init", events |-> <<>>]
  /\ history = NoHistory
  /\ resync = {}

\* lines 59-64 of _book: the side after one entry
\* (variant: a size-0 entry is reported but the level is kept)
MutKeepsRemoved(side, price, size) ==
  IF size = 0
    THEN side
    ELSE [p \in DOMAIN side \cup {price} |-> IF p = price THEN size ELSE side[p]]
BookEntry(side, price, size) ==
  IF size = 0
    THEN [p \in DOMAIN side \ {price} |-> side[p]]
    ELSE [p \in DOMAIN side \cup {price} |-> IF p = price THEN size ELSE side[p]]

\* lines 62 and 65 of _book: what one entry appends to the delta
\* (variant: a size-0 entry is reported only if the level was there)
MutReportsOnlyRemoved(side, price, size) ==
  IF size = 0
    THEN IF price \in DOMAIN side THEN << <<price, 0>> >> ELSE <<>>
    ELSE << <<price, size>> >>
DeltaEntry(side, price, size) ==
  IF size = 0 THEN << <<price, 0>> >> ELSE << <<price, size>> >>

\* the loop `for entry in msg[side]` of _book: the side and its delta
RECURSIVE BookSide(_, _, _)
BookSide(side, delta, entries) ==
  IF entries = <<>>
    THEN [side |-> side, delta |-> delta]
    ELSE LET price == Decimal(Head(entries).price)
             size == Decimal(Head(entries).size)
         IN BookSide(BookEntry(side, price, size),
                     delta \o DeltaEntry(side, price, size),
                     Tail(entries))

\* the arguments of book_callback
BookUpdate(pair, book, isSnapshot, delta) ==
  [kind |-> "book", symbol |-> pair, book |-> book, isSnapshot |-> isSnapshot,
   delta |-> delta]

\* HitBTC._book: the book, how the call ends, and the events it emits.
\* self.l2_book has no entry for a symbol before its first snapshot.
HitBTC_book(f) ==
  LET pair == Std(f.symbol) IN
  IF pair \notin DOMAIN l2_book
    THEN [book |-> l2_book, res |-> "KeyError", events |-> <<>>]
    ELSE LET b == BookSide(l2_book[pair].bid, <<>>, f.bid)
             a == BookSide(l2_book[pair].ask, <<>>, f.ask)
             new == [bid |-> b.side, ask |-> a.side]
         IN [book |-> [l2_book EXCEPT ![pair] = new],
             res |-> "ok",
             events |-> <<BookUpdate(pair, new, FALSE,
                                     [bid |-> b.delta, ask |-> a.delta])>>]

\* line 75 of _snapshot: the side after one entry
SnapshotEntry(side, price, size) ==
  [p \in DOMAIN side \cup {price} |-> IF p = price THEN size ELSE side[p]]

\* the loop `for entry in msg[side]` of _snapshot
RECURSIVE SnapshotSide(_, _)
SnapshotSide(side, entries) ==
  IF entries = <<>>
    THEN side
    ELSE SnapshotSide(SnapshotEntry(side, Decimal(Head(entries).price),
                                    Decimal(Head(entries).size)),
                      Tail(entries))

\* HitBTC._snapshot
\* (variant: the snapshot of one symbol starts the whole of l2_book anew)
MutSnapshotForgetsOthers(f) ==
  LET pair == Std(f.symbol)
      new == [bid |-> SnapshotSide(Empty, f.bid), ask |-> SnapshotSide(Empty, f.ask)]
  IN [book |-> [p \in {pair} |-> new],
      res |-> "ok",
      events |-> <<BookUpdate(pair, new, TRUE, NoDelta)>>]
HitBTC_snapshot(f) ==
  LET pair == Std(f.symbol)
      new == [bid |-> SnapshotSide(Empty, f.bid), ask |-> SnapshotSide(Empty, f.ask)]
  IN [book |-> [p \in DOMAIN l2_book \cup {pair} |->
                  IF p = pair THEN new ELSE l2_book[p]],
      res |-> "ok",
      events |-> <<BookUpdate(pair, new, TRUE, NoDelta)>>]

\* HitBTC._ticker and HitBTC._trades: one Ticker, one Trade per entry
HitBTC_ticker(f) ==
  [book |-> l2_book, res |-> "ok",
   events |-> <<[kind |-> "ticker", symbol |-> Std(f.symbol)]>>]
HitBTC_trades(f) ==
  [book |-> l2_book, res |-> "ok",
   events |-> [i \in 1..f.trades |-> [kind |-> "trade", symbol |-> Std(f.symbol)]]]

Dropped(res) == [book |-> l2_book, res |-> res, events |-> <<>>]

\* lines 106-124 of message_handler: the dispatch on the discriminator
Dispatch(f) ==
  IF f.disc = "method"
    THEN CASE f.name = "ticker" -> HitBTC_ticker(f)
           [] f.name = "snapshotOrderbook" -> HitBTC_snapshot(f)
           [] f.name = "updateOrderbook" -> HitBTC_book(f)
           [] f.name \in {"updateTrades", "snapshotTrades"} -> HitBTC_trades(f)
           [] OTHER -> Dropped("ok")
    ELSE IF f.disc = "channel"
      THEN IF f.name = "ticker" THEN HitBTC_ticker(f) ELSE Dropped("ok")
      ELSE IF f.error \/ f.result # "absent" THEN Dropped("ok") ELSE Dropped("KeyError")

\* line 101: the test that raises MissingSequenceNumber
\* (variant: only a jump forward counts as a gap)
MutOnlyForwardGaps(stored, seq) == stored + 1 < seq
SequenceGap(stored, seq) == stored + 1 # seq

\* the downstream replica's record: the book of a snapshot event starts
\* it, the deltas of the same symbol are appended, up to MaxDeltas
Recorded(events) ==
  IF ~audit \/ events = <<>> \/ events[1].kind # "book"
    THEN history
    ELSE IF events[1].isSnapshot
      THEN [symbol |-> events[1].symbol, book |-> events[1].book, deltas |-> <<>>]
      ELSE IF history.symbol # events[1].symbol
        THEN history
        ELSE IF Len(history.deltas) < MaxDeltas
          THEN [history EXCEPT !.deltas = Append(@, events[1].delta)]
          ELSE NoHistory

\* the symbols that still wait for their fresh snapshot after a reconnect
Awaited(f) ==
  IF f.disc = "method" /\ f.name = "snapshotOrderbook"
    THEN resync \ {f.symbol}
    ELSE resync

\* HitBTC.message_handler
message_handler(f) ==
  IF /\ f.seq # NoSeq
     /\ f.symbol \in DOMAIN seq_no
     /\ SequenceGap(seq_no[f.symbol], f.seq)
    THEN /\ last' = [frame |-> f, res |-> "MissingSequenceNumber", events |-> <<>>]
         /\ resync' = Awaited(f)
         /\ UNCHANGED <<seq_no, l2_book, audit, history>>
    ELSE LET d == Dispatch(f) IN
         /\ seq_no' = IF f.seq = NoSeq
                        THEN seq_no
                        ELSE [p \in DOMAIN seq_no \cup {f.symbol} |->
                                IF p = f.symbol THEN f.seq ELSE seq_no[p]]
         /\ l2_book' = d.book
         /\ last' = [frame |-> f, res |-> d.res, events |-> d.events]
         /\ history' = Recorded(d.events)
         /\ resync' = Awaited(f)
         /\ UNCHANGED audit

\* frames of one symbol without sequence numbers, with every entry list
BookFrames == BookFramesOf({"BTCUSD"}, {NoSeq}, EntryPairs)

\* frames of both symbols with and without sequence numbers
SeqFrames ==
  BookFramesOf(Symbols, {NoSeq} \cup 1..MaxSeq, SmallPairs)
    \cup OtherFramesOf(Symbols, {NoSeq} \cup 1..MaxSeq)

ReceiveBookFrame ==
  /\ \E f \in BookFrames : message_handler(f)
  /\ UNCHANGED <<chanVars, throttleVars, now, lastOp, feedVars, pollVars, idVars>>

ReceiveFrame ==
  /\ \E f \in SeqFrames : message_handler(f)
  /\ UNCHANGED <<chanVars, throttleVars, now, lastOp, feedVars, pollVars, idVars>>

(* ----------------------------- subscribe ------------------------------ *)
\* self.subscription, in the order in which the loops visit it
ScenarioC ==
  << <<"trades", <<"BTC-USD", "ETH-USD">> >>, <<"ticker", <<"BTC-USD">> >> >>
Subscriptions ==
  { <<>>,
    << <<"book", <<"BTC-USD">> >> >>,
    << <<"trades", <<>> >>, <<"ticker", <<"ETH-USD">> >> >>,
    ScenarioC }

\* `for chan in self.subscription: for pair in self.subscription[chan]`
\* (variant: one frame per channel, for its first symbol)
MutFirstSymbolOnly(M) ==
  [i \in 1..Len(SelectSeq(M, LAMBDA e : e[2] # <<>>)) |->
     LET e == SelectSeq(M, LAMBDA x : x[2] # <<>>)[i] IN <<e[1], e[2][1]>>]
RECURSIVE Pairs(_)
Pairs(M) ==
  IF M = <<>>
    THEN <<>>
    ELSE [j \in 1..Len(Head(M)[2]) |-> <<Head(M)[1], Head(M)[2][j]>>] \o Pairs(Tail(M))

\* conn.uuid (lines 69-71): the id of the channel, the first one constructed
uuid == ids[1].id

\* the dict that json.dumps serialises (lines 130-136)
SubscribeFrame(chan, pair) ==
  [method |-> chan, params |-> [symbol |-> pair], id |-> uuid]

\* one turn of the inner loop: `await conn.write(...)`, or the return when
\* nothing is left; c is the call as it stands before the turn
SubscribeWrite(c) ==
  IF c.todo = <<>>
    THEN /\ sub' = [c EXCEPT !.state = "done"]
         /\ lastOp' = Op("subscribe", "ok", 0, <<>>, 0, None)
         /\ UNCHANGED sent
    ELSE IF ws_write_closed
      THEN /\ sub' = [c EXCEPT !.state = "failed"]
           /\ lastOp' = Op("subscribe", "ConnectionClosed", 0, <<>>, 0, None)
           /\ UNCHANGED sent
      ELSE /\ sent < MaxCount
           /\ sent' = sent + 1
           /\ sub' = [state |-> IF Tail(c.todo) = <<>> THEN "done" ELSE "running",
                      todo |-> Tail(c.todo),
                      written |-> Append(c.written,
                                         SubscribeFrame(c.todo[1][1], c.todo[1][2])),
                      base |-> c.base]
           /\ lastOp' = Op("subscribe", "ok", 0,
                           IF sink THEN <<"send">> ELSE <<>>, 1, None)

\* HitBTC.subscribe up to the end of its first write
HitBTC_subscribe ==
  /\ kind = "ws"
  /\ sub.state # "running"
  /\ SubscribeWrite([state |-> "running", todo |-> Pairs(subscription),
                     written |-> <<>>, base |-> sent])
  /\ UNCHANGED <<kind, sink, conn, live, closing, nsessions, closeCount,
                 received, last_message, iter, now, subscription>>
  /\ UNCHANGED <<throttleVars, adapterVars, pollVars, idVars>>

\* HitBTC.subscribe: the next write after `await conn.write(...)` returned
HitBTC_subscribe_resume ==
  /\ kind = "ws"
  /\ sub.state = "running"
  /\ SubscribeWrite(sub)
  /\ UNCHANGED <<kind, sink, conn, live, closing, nsessions, closeCount,
                 received, last_message, iter, now, subscription>>
  /\ UNCHANGED <<throttleVars, adapterVars, pollVars, idVars>>

\* open() and close() by the task that also calls subscribe()
Owner_open == sub.state # "running" /\ WSAsyncConn_open
Owner_close == sub.state # "running" /\ AsyncConnection_close

\* {"channel": <name>, "data": {...}} frames, some with params.sequence
ChannelFrames ==
  {Frame("channel", c, sym, q, NoEntries, 0, FALSE, "absent") :
     c \in {"ticker", "bogus"}, sym \in Symbols, q \in {NoSeq, 1}}

\* {"method": <unknown name>, "params": {"symbol": .., "sequence": ..}}
UnknownMethodFrames ==
  {Frame("method", "bogus", sym, q, NoEntries, 0, FALSE, "absent") :
     sym \in Symbols, q \in 1..MaxStreamSeq}

\* result / error envelopes: neither "method" nor "channel" is a key
EnvelopeFrames ==
  {Frame("none", "", "", NoSeq, NoEntries, 0, e, r) :
     e \in BOOLEAN, r \in {"absent", "empty", "full"}}

\* every kind of frame the read loop may hand to message_handler
StreamFrames ==
  BookFramesOf(Symbols, 1..MaxStreamSeq, SmallPairs)
    \cup OtherFramesOf(Symbols, {NoSeq})
    \cup UnknownMethodFrames \cup ChannelFrames \cup EnvelopeFrames

ReceiveStreamFrame ==
  /\ \E f \in StreamFrames : message_handler(f)
  /\ UNCHANGED <<chanVars, throttleVars, now, lastOp, feedVars, pollVars, idVars>>

\* the supervising layer, after MissingSequenceNumber has ended the read
\* loop: it reconnects and calls subscribe() on the same HitBTC object.
\* __init__ (line 42) is not run again and subscribe (lines 126-136) assigns
\* nothing, so seq_no and l2_book are what they were.
Supervisor_reconnect ==
  /\ last.res = "MissingSequenceNumber"
  /\ resync' = resync \cup {last.frame.symbol}
  /\ last' = [last EXCEPT !.res = "reconnected"]
  /\ UNCHANGED <<seq_no, l2_book, audit, history>>
  /\ UNCHANGED <<chanVars, throttleVars, now, lastOp, feedVars, pollVars, idVars>>

(* -------------------------- specifications ----------------------------- *)
\* one channel of any class, used by one task
InitOneChannel ==
  /\ InitChannel
  /\ InitThrottle
  /\ InitAdapter
  /\ InitFeed
  /\ InitPolling
  /\ InitIds
  /\ audit = FALSE
  /\ sink \in BOOLEAN
  /\ kind \in Kinds
  /\ throttle_limit \in Limits
  /\ tasks = {1}

NextChannel ==
  \/ AsyncConnection_close
  \/ TransportClosed
  \/ TransportDrop
  \/ Advance
  \/ HTTPAsyncConn_open
  \/ HTTPAsyncConn_read
  \/ HTTPAsyncConn_write
  \/ ThrottledHTTPAsyncConn_read
  \/ ThrottledHTTPAsyncConn_resume
  \/ WSAsyncConn_open
  \/ WSAsyncConn_read
  \/ WSAsyncConn_read_item
  \/ WSAsyncConn_read_end
  \/ WSAsyncConn_write

SpecChannel == InitOneChannel /\ [][NextChannel]_vars

\* one channel of the HTTP family, used by one task
InitHTTP ==
  /\ InitChannel
  /\ InitThrottle
  /\ InitAdapter
  /\ InitFeed
  /\ InitIds
  /\ audit = FALSE
  /\ sink \in BOOLEAN
  /\ kind \in HTTPFamily
  /\ throttle_limit \in Limits
  /\ tasks = {1}
  /\ address \in (IF kind = "poll" THEN AddressLists ELSE {<<>>})
  /\ poll = NoPoll

NextHTTP ==
  \/ AsyncConnection_close
  \/ TransportClosed
  \/ TransportDrop
  \/ Advance
  \/ HTTPAsyncConn_open
  \/ HTTPAsyncConn_read
  \/ HTTPAsyncConn_write
  \/ ThrottledHTTPAsyncConn_read
  \/ ThrottledHTTPAsyncConn_resume
  \/ HTTPPoll_read
  \/ HTTPSync_read
  \/ HTTPSync_write

SpecHTTP == InitHTTP /\ [][NextHTTP]_vars

\* one throttled channel that two tasks read from
InitTwoTasks ==
  /\ InitChannel
  /\ InitThrottle
  /\ InitAdapter
  /\ InitFeed
  /\ InitPolling
  /\ InitIds
  /\ audit = FALSE
  /\ sink = FALSE
  /\ kind = "throttled"
  /\ throttle_limit \in TightLimits
  /\ tasks = Tasks

NextShared ==
  \/ Advance
  \/ ThrottledHTTPAsyncConn_read
  \/ ThrottledHTTPAsyncConn_resume

SpecShared == InitTwoTasks /\ [][NextShared]_vars

\* the adapter on an idle channel
InitIdle ==
  /\ InitChannel
  /\ InitThrottle
  /\ InitAdapter
  /\ InitFeed
  /\ InitPolling
  /\ InitIds
  /\ sink = FALSE
  /\ kind = "ws"
  /\ throttle_limit \in Limits
  /\ tasks = {1}

\* order-book frames of one symbol, heard by a downstream replica
InitBook ==
  /\ InitIdle
  /\ audit = TRUE

SpecBook == InitBook /\ [][ReceiveBookFrame]_vars

\* frames of two symbols with sequence numbers
InitFrames ==
  /\ InitIdle
  /\ audit = FALSE

SpecAdapter == InitFrames /\ [][ReceiveFrame]_vars

\* a WebSocket channel and the adapter that subscribes on it
InitSubscribe ==
  /\ InitChannel
  /\ InitThrottle
  /\ InitAdapter
  /\ InitPolling
  /\ audit = FALSE
  /\ sink \in BOOLEAN
  /\ kind = "ws"
  /\ throttle_limit \in Limits
  /\ tasks = {1}
  /\ subscription \in Subscriptions
  /\ sub = NoCall
  /\ conn_count = 1
  /\ \E base \in Bases : ids = <<[kind |-> "ws", id |-> ws_id(base, 0)]>>

NextSubscribe ==
  \/ Owner_open
  \/ Owner_close
  \/ TransportClosed
  \/ TransportDrop
  \/ HitBTC_subscribe
  \/ HitBTC_subscribe_resume

SpecSubscribe == InitSubscribe /\ [][NextSubscribe]_vars

\* the channels one process constructs
NextIds ==
  \/ HTTPAsyncConn_init
  \/ ThrottledHTTPAsyncConn_init
  \/ HTTPPoll_init
  \/ WSAsyncConn_init

SpecIds == InitFrames /\ [][NextIds]_vars

\* every kind of frame, and the supervisor's reconnect after a gap
NextStream ==
  \/ ReceiveStreamFrame
  \/ Supervisor_reconnect

SpecStream == InitFrames /\ [][NextStream]_vars

(* ------------------------------ claims --------------------------------- *)
\* the transport and the counters of the channel
Lifetime == <<conn, live, closing, nsessions, closeCount>>
Counters == <<sent, received, last_message>>

\* C1: inside one wall-clock minute the weight of the reads that were
\* accepted without a suspension never exceeds limit (the last clause of the
\* claim; the reads that slept only add to the weight of the minute).
C1_MinuteWithinLimit ==
  kind = "throttled" => direct <= throttle_limit

\* C2: a read that finds used_limit >= throttle_limit at its check suspends
\* without delegating; it resumes no earlier than the next_reset it suspended
\* on, and then used_limit is its own weight and next_reset is the first
\* multiple of 60 after the time of the resume.
C2_SuspendsUntilWindowEnd ==
  [][\A t \in Tasks :
       /\ ( /\ kind = "throttled"
            /\ pc[t] = "idle"
            /\ lastOp'.task = t
            /\ used_limit' >= throttle_limit )
          => /\ pc'[t] = "sleeping"
             /\ window_at_suspend'[t] = next_reset'
             /\ lastOp'.wire = 0
             /\ delegated' = delegated
             /\ received' = received
       /\ (pc[t] = "sleeping" /\ pc'[t] = "idle")
          => /\ now >= window_at_suspend[t]
             /\ lastOp'.wire = 1
             /\ used_limit' = weight[t]
             /\ next_reset' % Minute = 0
             /\ next_reset' > now
             /\ next_reset' - Minute <= now
    ]_vars

\* limit 10, weights 4, 4, 4 inside one minute: the third read has slept to
\* the minute boundary and has gone on with used_limit = 4
C2_Witness ==
  /\ kind = "throttled"
  /\ throttle_limit = 10
  /\ lastOp.op = "read"
  /\ lastOp.task = 1
  /\ pc[1] = "idle"
  /\ weight[1] = 4
  /\ window_at_suspend[1] = 60
  /\ now = 60
  /\ used_limit = 4
  /\ next_reset = 120
  /\ received = 3

\* C3: a frame whose sequence number is not the stored one plus one raises
\* MissingSequenceNumber before the dispatch: no book changes, no event is
\* emitted, the stored number stays. The first sequence number of a symbol
\* is accepted whatever it is.
C3_GapRaisesBeforeDispatch ==
  [][LET f == last'.frame IN
     f.seq # NoSeq =>
       IF f.symbol \in DOMAIN seq_no
         THEN IF f.seq # seq_no[f.symbol] + 1
                THEN /\ last'.res = "MissingSequenceNumber"
                     /\ last'.events = <<>>
                     /\ l2_book' = l2_book
                     /\ seq_no' = seq_no
                ELSE /\ last'.res # "MissingSequenceNumber"
                     /\ seq_no'[f.symbol] = f.seq
         ELSE /\ last'.res # "MissingSequenceNumber"
              /\ seq_no'[f.symbol] = f.seq
    ]_vars

\* an incremental frame numbered 3 refused after the snapshot numbered 1
C3_Witness ==
  /\ last.res = "MissingSequenceNumber"
  /\ last.frame.name = "updateOrderbook"
  /\ last.frame.symbol = "BTCUSD"
  /\ last.frame.seq = 3
  /\ "BTCUSD" \in DOMAIN seq_no
  /\ seq_no["BTCUSD"] = 1
  /\ "BTC-USD" \in DOMAIN l2_book

\* C4: no side of any book holds a price level whose size is 0.
C4_NoZeroLevel ==
  \A pair \in DOMAIN l2_book :
    /\ \A p \in DOMAIN l2_book[pair].bid : l2_book[pair].bid[p] # 0
    /\ \A p \in DOMAIN l2_book[pair].ask : l2_book[pair].ask[p] # 0

\* what a list of entries asks of one side: the last entry of a price
\* decides, size 0 for "no level", another size for "level of that size"
Touched(entries) == {Decimal(entries[i].price) : i \in 1..Len(entries)}
LastOf(entries, p) ==
  CHOOSE i \in 1..Len(entries) :
    /\ Decimal(entries[i].price) = p
    /\ \A j \in (i + 1)..Len(entries) : Decimal(entries[j].price) # p
AskedSize(entries, p) == Decimal(entries[LastOf(entries, p)].size)
AskedSide(side, entries) ==
  LET keep == {p \in DOMAIN side \cup Touched(entries) :
                 p \in Touched(entries) => AskedSize(entries, p) # 0}
  IN [p \in keep |-> IF p \in Touched(entries) THEN AskedSize(entries, p) ELSE side[p]]
AskedDelta(entries) ==
  [i \in 1..Len(entries) |->
     <<Decimal(entries[i].price), Decimal(entries[i].size)>>]

\* C5: an incremental frame removes the levels of its size-0 entries (if
\* there), sets the levels of its other entries, and the emitted delta lists
\* the entries of the frame per side, in order, size-0 entries as (price, 0).
C5_DeltaAppliedAndReported ==
  [][LET f == last'.frame
         pair == Std(f.symbol)
     IN (f.disc = "method" /\ f.name = "updateOrderbook" /\ pair \in DOMAIN l2_book
           /\ last'.res # "MissingSequenceNumber")
        => /\ last'.res = "ok"
           /\ DOMAIN l2_book' = DOMAIN l2_book
           /\ \A q \in DOMAIN l2_book \ {pair} : l2_book'[q] = l2_book[q]
           /\ l2_book'[pair].bid = AskedSide(l2_book[pair].bid, f.bid)
           /\ l2_book'[pair].ask = AskedSide(l2_book[pair].ask, f.ask)
           /\ last'.events =
                <<BookUpdate(pair, l2_book'[pair], FALSE,
                             [bid |-> AskedDelta(f.bid), ask |-> AskedDelta(f.ask)])>>
    ]_vars

\* snapshot {bid: {100: 1}, ask: {101: 2}}, then the delta ask 101 -> 0
C5_Witness ==
  /\ history.symbol = "BTC-USD"
  /\ history.book = [bid |-> (100 :> 1), ask |-> (101 :> 2)]
  /\ history.deltas = <<[bid |-> <<>>, ask |-> << <<101, 0>> >>]>>
  /\ last.frame.name = "updateOrderbook"
  /\ l2_book["BTC-USD"] = [bid |-> (100 :> 1), ask |-> Empty]
  /\ last.events[1].delta = [bid |-> <<>>, ask |-> << <<101, 0>> >>]

\* a downstream replica: upsert for size > 0, delete for size 0
ReplayEntry(side, e) ==
  IF e[2] > 0
    THEN [p \in DOMAIN side \cup {e[1]} |-> IF p = e[1] THEN e[2] ELSE side[p]]
    ELSE [p \in DOMAIN side \ {e[1]} |-> side[p]]
RECURSIVE ReplaySide(_, _)
ReplaySide(side, es) ==
  IF es = <<>> THEN side ELSE ReplaySide(ReplayEntry(side, Head(es)), Tail(es))
RECURSIVE Replay(_, _)
Replay(book, deltas) ==
  IF deltas = <<>>
    THEN book
    ELSE Replay([bid |-> ReplaySide(book.bid, Head(deltas).bid),
                 ask |-> ReplaySide(book.ask, Head(deltas).ask)],
                Tail(deltas))

\* C6: a replica that starts from the book of the snapshot event and
\* replays the emitted deltas has the adapter's levels; replaying the same
\* deltas once more leaves it as it is.
C6_ReplayConverges ==
  history.symbol # "none" =>
    LET r == Replay(history.book, history.deltas) IN
    /\ history.symbol \in DOMAIN l2_book
    /\ r = l2_book[history.symbol]
    /\ Replay(r, history.deltas) = r

\* two different deltas were replayed and the book is no longer the
\* snapshot's
C6_Witness ==
  /\ history.symbol = "BTC-USD"
  /\ Len(history.deltas) = 2
  /\ history.deltas[1] # history.deltas[2]
  /\ l2_book["BTC-USD"] # history.book
  /\ l2_book["BTC-USD"].bid # Empty
  /\ \E i \in 1..2 : \E e \in {history.deltas[i].ask[k] : k \in 1..Len(history.deltas[i].ask)} : e[2] = 0

\* C7: open() on an Open channel creates no session, writes nothing and
\* leaves the channel state, the counters included, as it was.
C7_OpenWhenOpenIsNoOp ==
  [][(is_open /\ lastOp'.op = "open")
       => /\ UNCHANGED Lifetime
          /\ UNCHANGED Counters
          /\ lastOp'.wire = 0
          /\ lastOp'.opened = None
    ]_vars

\* C8: close() on a Closed channel raises nothing and changes nothing; after
\* a close() the channel is Closed; no transport is closed twice.
C8_CloseIsIdempotent ==
  /\ [](\A s \in Sessions : closeCount[s] <= 1)
  /\ [][lastOp'.op = "close"
          => /\ lastOp'.res = "ok"
             /\ ~is_open'
             /\ ~is_open => UNCHANGED <<Lifetime, Counters, iter>>
       ]_vars

\* close() called on a channel that an earlier close() had closed
C8_Witness ==
  /\ lastOp.op = "close"
  /\ ~lastOp.pre
  /\ nsessions = 1
  /\ closeCount[1] = 1
  /\ conn = None

\* C9: read() and write() on a Closed WebSocket channel fail with
\* ConnectionClosed and change nothing: counters, last_message, the
\* transport, the sink and the channel state stay as they were.
C9_ClosedWSFails ==
  [][(kind = "ws" /\ ~is_open /\ lastOp'.op \in {"read", "write"})
       => /\ lastOp'.res = "ConnectionClosed"
          /\ UNCHANGED <<Lifetime, Counters, iter>>
          /\ lastOp'.wire = 0
          /\ lastOp'.sink = <<>>
          /\ ~is_open'
    ]_vars

\* a write refused on a channel whose transport was closed underneath it,
\* after one frame was sent and one was received
C9_Witness ==
  /\ kind = "ws"
  /\ lastOp.op = "write"
  /\ lastOp.res = "ConnectionClosed"
  /\ conn # None
  /\ sent = 1
  /\ received = 1

\* C10: read and write on a Closed HTTP-family channel never fail with
\* ConnectionClosed: the call creates a fresh session, the request goes out
\* on it, the channel is Open when the call ends, and the counters count
\* the traffic since that open.
C10_ClosedHTTPAutoOpens ==
  [][(kind \in HTTPKinds /\ ~is_open /\ lastOp'.op \in {"read", "write"})
       => /\ lastOp'.res # "ConnectionClosed"
          /\ lastOp'.wire = 1
          /\ is_open'
          /\ conn' = nsessions + 1
          /\ nsessions' = nsessions + 1
          /\ lastOp'.opened = conn'
          /\ closeCount[conn'] = 0
          /\ sent' = (IF lastOp'.op = "write" THEN 1 ELSE 0)
          /\ received' = (IF lastOp'.op = "read" THEN 1 ELSE 0)
    ]_vars

\* a throttled read on a channel closed by close() after traffic: it runs
\* on the second session and the counters start again
C10_Witness ==
  /\ kind = "throttled"
  /\ lastOp.op = "read"
  /\ ~lastOp.pre
  /\ lastOp.opened = 2
  /\ closeCount[1] = 1
  /\ conn = 2
  /\ received = 1
  /\ sent = 0

\* a frame whose discriminator message_handler does not know
KnownMethods ==
  {"ticker", "snapshotOrderbook", "updateOrderbook", "updateTrades", "snapshotTrades"}
Unrecognised(f) ==
  \/ f.disc = "method" /\ f.name \notin KnownMethods
  \/ f.disc = "channel" /\ f.name # "ticker"
Handled == last'.res \notin {"init", "reconnected"}

\* C13: a frame with an unknown method or channel name that message_handler
\* returns from leaves every stored sequence number and every book as they
\* were, also when the frame carries params.sequence.
C13_DroppedFrameHasNoEffect ==
  [][(Handled /\ Unrecognised(last'.frame) /\ last'.res = "ok")
       => /\ seq_no' = seq_no
          /\ l2_book' = l2_book
    ]_vars

\* C14: message_handler returns normally and emits nothing for every frame
\* that has neither a known method nor a known channel, whatever error and
\* result keys it has.
C14_UnknownFrameNeverRaises ==
  [][(Handled /\ (Unrecognised(last'.frame) \/ last'.frame.disc = "none"))
       => /\ last'.res = "ok"
          /\ last'.events = <<>>
    ]_vars

\* C16: the first snapshot frame of a symbol after a gap of that symbol and
\* a reconnect is accepted whatever its sequence number: no gap is raised,
\* both sides become the levels of the frame, and the event is a snapshot
\* without delta.
C16_FreshSnapshotAccepted ==
  [][LET f == last'.frame
         pair == Std(f.symbol)
         new == [bid |-> SnapshotSide(Empty, f.bid), ask |-> SnapshotSide(Empty, f.ask)]
     IN (f.symbol \in resync /\ f.symbol \notin resync')
        => /\ last'.res = "ok"
           /\ pair \in DOMAIN l2_book'
           /\ l2_book'[pair] = new
           /\ last'.events = <<BookUpdate(pair, new, TRUE, NoDelta)>>
    ]_vars

\* the frame passes the check of lines 98-103
Passed(f) ==
  /\ f.seq # NoSeq
  /\ f.symbol \in DOMAIN seq_no => seq_no[f.symbol] + 1 = f.seq
SameAt(m, n, k) == (k \in DOMAIN m <=> k \in DOMAIN n) /\ (k \in DOMAIN m => m[k] = n[k])

\* C20: a frame of symbol A, accepted, refused or dropped, leaves the stored
\* sequence number and the book of every other symbol as they were; the
\* stored number of A becomes the number of the frame if the frame passed
\* the sequence check and stays as it was otherwise, so it always is the
\* number of the last frame of A that passed.
C20_SymbolsIndependent ==
  [][LET f == last'.frame IN
     Handled =>
       /\ \A B \in Symbols \ {f.symbol} :
            /\ SameAt(seq_no, seq_no', B)
            /\ SameAt(l2_book, l2_book', Std(B))
       /\ DOMAIN seq_no' \subseteq Symbols
       /\ f.symbol \in Symbols =>
            IF Passed(f)
              THEN f.symbol \in DOMAIN seq_no' /\ seq_no'[f.symbol] = f.seq
              ELSE SameAt(seq_no, seq_no', f.symbol)
    ]_vars

\* a gap of ETHUSD was refused while BTCUSD, two frames further, has a
\* different book
C20_Witness ==
  /\ last.res = "MissingSequenceNumber"
  /\ last.frame.symbol = "ETHUSD"
  /\ last.frame.seq = 1
  /\ DOMAIN seq_no = Symbols
  /\ seq_no["ETHUSD"] = 1
  /\ seq_no["BTCUSD"] = 2
  /\ DOMAIN l2_book = {"BTC-USD", "ETH-USD"}
  /\ l2_book["BTC-USD"] # l2_book["ETH-USD"]

\* both tasks were suspended on the same window, both have resumed inside
\* the minute that began at its end, and neither weight is above the limit
BothResumed ==
  /\ kind = "throttled"
  /\ \A t \in Tasks : pc[t] = "idle" /\ weight[t] <= throttle_limit
  /\ window_at_suspend[1] # 0
  /\ window_at_suspend[1] = window_at_suspend[2]
  /\ window_at_suspend[1] <= now
  /\ now < window_at_suspend[1] + Minute

\* C19: after two interleaved suspended reads have resumed, the weight
\* delegated inside the minute is within the limit and used_limit is the
\* weight delegated since the window began.
C19_InterleavedReadsKeepBudget ==
  BothResumed => /\ delegated <= throttle_limit
                 /\ used_limit = delegated

\* the counter at the end of an id
Embedded(id) == id[Len(id)]

\* C18: no two constructed channels have the same id; the counter in the id
\* of the k-th constructed channel is k - 1, whatever the classes and the
\* bases; a construction that fails leaves the counter as it was.
C18_IdsUnique ==
  /\ conn_count = Len(ids)
  /\ \A i \in 1..Len(ids) : Embedded(ids[i].id) = Str(i - 1)
  /\ \A i, j \in 1..Len(ids) : i # j => ids[i].id # ids[j].id

\* a polling, a WebSocket and an async HTTP channel, the third one built on
\* a base that is the text of an id, and then a refused ws:// address
C18_Witness ==
  /\ Len(ids) = 3
  /\ ids[1] = [kind |-> "poll", id |-> <<"hitbtc", "http", "0", "http", "0">>]
  /\ ids[2] = [kind |-> "ws", id |-> <<"hitbtc", "ws", "1">>]
  /\ ids[3] = [kind |-> "http", id |-> <<"hitbtc", "http", "0", "http", "2">>]
  /\ lastOp.res = "ValueError"
  /\ conn_count = 3

\* the (channel, symbol) pairs of a subscription map and their number
PairSet(M) ==
  UNION {{<<M[i][1], M[i][2][j]>> : j \in 1..Len(M[i][2])} : i \in 1..Len(M)}
RECURSIVE SumOfSizes(_)
SumOfSizes(M) == IF M = <<>> THEN 0 ELSE Len(Head(M)[2]) + SumOfSizes(Tail(M))
FramesOf(frames) ==
  {<<frames[i].method, frames[i].params.symbol>> : i \in 1..Len(frames)}

\* C12: a subscribe() whose writes all find the channel Open returns after
\* exactly one frame per (channel, symbol) pair of the map: as many writes
\* as the sizes of the symbol sets add up to, sent grown by that number,
\* every frame with method = channel, params.symbol = symbol, id = uuid. A
\* subscribe() that finds the channel Closed at a write fails there with
\* ConnectionClosed; Closed from the start, it has written nothing.
C12_OneFramePerPair ==
  [][lastOp'.op = "subscribe" =>
       LET begins == sub.state # "running"
           before == IF begins THEN <<>> ELSE sub.written
           start == IF begins THEN sent ELSE sub.base
       IN /\ sub'.base = start
          /\ sent' = start + Len(sub'.written)
          /\ FramesOf(sub'.written) \subseteq PairSet(subscription)
          /\ Cardinality(FramesOf(sub'.written)) = Len(sub'.written)
          /\ \A i \in 1..Len(sub'.written) : sub'.written[i].id = ids[1].id
          /\ IF is_open
               THEN /\ lastOp'.res = "ok"
                    /\ sub'.state = "done"
                         => /\ FramesOf(sub'.written) = PairSet(subscription)
                            /\ Len(sub'.written) = SumOfSizes(subscription)
               ELSE IF Len(before) = SumOfSizes(subscription)
                 THEN lastOp'.res = "ok" /\ sub'.state = "done"
                 ELSE /\ lastOp'.res = "ConnectionClosed"
                      /\ sub'.state = "failed"
                      /\ sub'.written = before
                      /\ lastOp'.wire = 0
                      /\ lastOp'.sink = <<>>
    ]_vars

\* Scenario C on an Open channel: three frames, sent = 3
C12_Witness ==
  /\ subscription = ScenarioC
  /\ lastOp.op = "subscribe"
  /\ lastOp.pre
  /\ sub.state = "done"
  /\ sub.base = 0
  /\ sent = 3
  /\ Len(sub.written) = 3
  /\ sub.written[3] = [method |-> "ticker", params |-> [symbol |-> "BTC-USD"],
                        id |-> ids[1].id]

\* C17: close() on an Open channel clears self.conn while the transport's
\* close is still to be awaited and leaves the channel Closed; the next
\* open(), explicit or the auto-open of an HTTP read/write, makes a session
\* that no earlier open made, with sent and received counting from 0; the
\* channel never refers to a session it has released.
C17_CloseThenOpenIsFresh ==
  /\ [](conn # None => closeCount[conn] = 0 /\ conn \notin closing)
  /\ [][(is_open /\ lastOp'.op = "close")
          => /\ conn' = None
             /\ ~is_open'
             /\ conn \in live' /\ conn \in closing'
             /\ closeCount'[conn] = 1
       ]_vars
  /\ [][(~is_open /\ lastOp'.op \in {"open", "read", "write"}
            /\ lastOp'.res # "ConnectionClosed")
          => /\ conn' \notin 1..nsessions
             /\ conn' = nsessions'
             /\ lastOp'.opened = conn'
             /\ is_open'
             /\ closeCount'[conn'] = 0
             /\ sent' = (IF lastOp'.op = "write" THEN 1 ELSE 0)
             /\ received' = (IF lastOp'.op = "read" THEN 1 ELSE 0)
       ]_vars

\* an explicit open() of an HTTP channel while the close of its first
\* session is still awaited
C17_Witness ==
  /\ kind = "http"
  /\ lastOp.op = "open"
  /\ lastOp.opened = 2
  /\ conn = 2
  /\ 1 \in closing
  /\ 1 \in live
  /\ closeCount[1] = 1
  /\ sent = 0
  /\ received = 0

\* C11: an HTTP read or write of any class that has received a response
\* has called the sink exactly once if there is a sink, also when it ends
\* in the status error of a non-2xx response; a polling read that ends in
\* that error has yielded no item.
C11_SinkBeforeStatusError ==
  (lastOp.op \in {"read", "write", "poll"} /\ lastOp.wire = 1)
    => /\ kind \in HTTPFamily
       /\ lastOp.res \in {"ok", "HTTPError"}
       /\ Len(lastOp.sink) = (IF sink THEN 1 ELSE 0)
       /\ sink => lastOp.sink[1] \in {"endpoint", "send"}
       /\ lastOp.op = "poll"
            => /\ poll.polled \in {address[k] : k \in 1..Len(address)}
               /\ lastOp.res = "HTTPError" <=> poll.state = "finished"
               /\ lastOp.res = "ok" <=> poll.state = "running"

\* a polling read with a sink that got a non-2xx response for its second
\* address: the sink was called, the generator is finished
C11_Witness ==
  /\ kind = "poll"
  /\ sink
  /\ lastOp.op = "poll"
  /\ lastOp.res = "HTTPError"
  /\ lastOp.sink = <<"endpoint">>
  /\ poll.state = "finished"
  /\ poll.polled = "v"
  /\ received = 2

\* position of an address in self.address (the addresses are distinct)
IndexOf(a) == CHOOSE k \in 1..Len(address) : address[k] = a

\* what C15 says of a turn that finds the channel Closed, and the order in
\* which an Open channel is polled
PollOnClosed ==
  /\ lastOp'.res = "ConnectionClosed"
  /\ lastOp'.wire = 0
  /\ lastOp'.sink = <<>>
  /\ UNCHANGED <<Lifetime, Counters>>
  /\ ~is_open'
  /\ poll'.state = "finished"
PollInOrder ==
  /\ lastOp'.res # "ConnectionClosed"
  /\ lastOp'.wire = 1
  /\ UNCHANGED Lifetime
  /\ poll'.polled =
       address[IF poll.state = "running"
                 THEN (IF IndexOf(poll.polled) = Len(address)
                         THEN 1 ELSE IndexOf(poll.polled) + 1)
                 ELSE 1]

\* C15 as stated: a turn that finds the channel Closed fails with
\* ConnectionClosed, issues no GET and opens nothing; while the channel is
\* Open the sequence does not end and the addresses are polled in list
\* order, cyclically.
C15_PollNeverEndsWhileOpen ==
  [][lastOp'.op = "poll" =>
       IF ~is_open
         THEN PollOnClosed
         ELSE PollInOrder /\ poll'.state = "running"
    ]_vars

\* C15, amended: as above, but on an Open channel the sequence goes on
\* exactly when the response is 2xx; a non-2xx response ends it with the
\* status error.
C15_PollFailsWhenClosed ==
  [][lastOp'.op = "poll" =>
       IF ~is_open
         THEN PollOnClosed
         ELSE /\ PollInOrder
              /\ lastOp'.res = "ok" <=> poll'.state = "running"
              /\ lastOp'.res = "HTTPError" <=> poll'.state = "finished"
    ]_vars

\* two addresses were polled and yielded, the third turn polled the first
\* address again, then close() ran and the fourth turn failed
C15_Witness ==
  /\ kind = "poll"
  /\ address = <<"u", "v">>
  /\ lastOp.op = "poll"
  /\ lastOp.res = "ConnectionClosed"
  /\ received = 3
  /\ nsessions = 1
  /\ closeCount[1] = 1
  /\ conn = None
  /\ poll.state = "finished"
  /\ poll.next = 2

====
